---- MODULE Spec2Model ----
(***************************************************************************)
(* Model of src/app.py: the key estimator detect_key (chroma               *)
(* normalisation, the 24-candidate correlation loop, the three label       *)
(* corrections, the Camelot lookup) and the upload handler around it.      *)
(*                                                                         *)
(* Numbers.  A float of the code is modelled as the IEEE-754 double it is: *)
(* a sign, a 53-bit significand and a binary exponent, or not-a-number.    *)
(* The significand is a natural number held as a sequence of limbs, least  *)
(* significant first; products, sums, quotients and the formatting of a    *)
(* double round to nearest, ties to even, as the machine does.  The        *)
(* values of the model stay far inside the range of normal doubles, so     *)
(* neither overflow nor subnormals occur.                                  *)
(*                                                                         *)
(* np.sum, np.mean and np.corrcoef are computed step by step as numpy     *)
(* computes them, every step rounded to a double: the sums of 12 bins in   *)
(* numpy's pairwise order, the covariances as products added in index      *)
(* order.  numpy leaves the order of that last sum to the linear-algebra   *)
(* library it was built with; another order can change the last bits of a  *)
(* coefficient.                                                            *)
(*                                                                         *)
(* Audio.  What librosa makes of a file (lines 32-46: load, trim, cut to   *)
(* 60 s, harmonic part, chroma_cqt, mean over time) is taken as given: a   *)
(* recording is described by its 12 time-averaged chroma bins, doubles     *)
(* bins[k] / unit, and a file that holds no audio by none.                 *)
(***************************************************************************)
EXTENDS Integers, Sequences, FiniteSets

------------------------------------------------------------------------------
(* Natural numbers of any size: sequences of limbs, least significant first *)

\* The base of the limbs: products of two limbs stay below 2^31.
Limb == 2 ^ 14

\* The entries of f, computed once.
Entries(f) == f \o <<>>

\* Limb k of a, 0 above its top.
LimbAt(a, k) == IF k >= 1 /\ k <= Len(a) THEN a[k] ELSE 0

\* a without its high zero limbs.
BigTrim(a) ==
    IF a = <<>> THEN a
    ELSE IF a[Len(a)] # 0 THEN a
    ELSE IF \A k \in 1 .. Len(a) : a[k] = 0 THEN <<>>
    ELSE SubSeq(a, 1, Len(a) - CHOOSE d \in 1 .. Len(a) - 1 :
                                  /\ a[Len(a) - d] # 0
                                  /\ \A e \in 1 .. d - 1 : a[Len(a) - e] = 0)

\* The limbs of the integer n >= 0.
BigOf(n) == BigTrim(<<n % Limb, (n \div Limb) % Limb, n \div (Limb * Limb)>>)

\* The integer of at most three limbs.
BigToInt(a) == LimbAt(a, 1) + Limb * LimbAt(a, 2) + Limb * Limb * LimbAt(a, 3)

\* A carry enters column k when the nearest column below that does not hold
\* Limb - 1 overflows.
CarryInto(col, k) ==
    /\ k > 1
    /\ \/ col[k - 1] >= Limb
       \/ /\ col[k - 1] = Limb - 1
          /\ \E j \in 1 .. k - 2 :
                /\ col[j] >= Limb
                /\ \A i \in j + 1 .. k - 2 : col[i] = Limb - 1

\* The columns col of a sum, carries propagated.
Carried(col) ==
    BigTrim(Entries([k \in 1 .. Len(col) |->
               (col[k] + IF CarryInto(col, k) THEN 1 ELSE 0) % Limb]))

\* a + b
BigAdd(a, b) ==
    IF a = <<>> THEN b
    ELSE IF b = <<>> THEN a
    ELSE Carried(Entries([k \in 1 .. (IF Len(a) > Len(b) THEN Len(a) ELSE Len(b)) + 1 |->
                            LimbAt(a, k) + LimbAt(b, k)]))

\* A borrow leaves column k when the nearest column below that is not 0 is negative.
BorrowFrom(col, k) ==
    /\ k > 1
    /\ \/ col[k - 1] < 0
       \/ /\ col[k - 1] = 0
          /\ \E j \in 1 .. k - 2 :
                /\ col[j] < 0
                /\ \A i \in j + 1 .. k - 2 : col[i] = 0

\* The columns col of a difference, borrows propagated.
Borrowed(col) ==
    BigTrim(Entries([k \in 1 .. Len(col) |->
               (col[k] - (IF BorrowFrom(col, k) THEN 1 ELSE 0) + Limb) % Limb]))

\* a - b for a >= b.
BigSub(a, b) ==
    IF b = <<>> THEN a
    ELSE Borrowed(Entries([k \in 1 .. Len(a) |-> a[k] - LimbAt(b, k)]))

\* a against b: -1, 0 or 1.
BigCmp(a, b) ==
    IF Len(a) # Len(b) THEN (IF Len(a) > Len(b) THEN 1 ELSE -1)
    ELSE IF a = b THEN 0
    ELSE LET n == Len(a)
             d == CHOOSE h \in 0 .. n - 1 :
                    /\ a[n - h] # b[n - h]
                    /\ \A e \in 0 .. h - 1 : a[n - e] = b[n - e]
         IN  IF a[n - d] > b[n - d] THEN 1 ELSE -1

\* a * m for 0 <= m < Limb: the low and the high limbs of the products, added.
BigScale(a, m) ==
    IF m = 0 \/ a = <<>> THEN <<>>
    ELSE IF m = 1 THEN a
    ELSE BigAdd(Entries([k \in 1 .. Len(a) |-> (a[k] * m) % Limb]),
                <<0>> \o Entries([k \in 1 .. Len(a) |-> (a[k] * m) \div Limb]))

\* a * Limb^n
BigShiftLimbs(a, n) == IF a = <<>> THEN a ELSE [k \in 1 .. n |-> 0] \o a

\* a * 2^n
BigShl(a, n) == BigShiftLimbs(BigScale(a, 2 ^ (n % 14)), n \div 14)

\* b with every limb moved down by the bits p = 2^s takes off.
ShiftedDown(b, p) ==
    BigTrim(Entries([k \in 1 .. Len(b) |->
               (b[k] \div p) + (LimbAt(b, k + 1) % p) * (Limb \div p)]))

\* a \div 2^n
BigShr(a, n) ==
    ShiftedDown(IF n \div 14 >= Len(a) THEN <<>> ELSE SubSeq(a, n \div 14 + 1, Len(a)),
                2 ^ (n % 14))

\* a times the limbs lo .. hi of b, each at its place.
RECURSIVE MulRange(_, _, _, _)
MulRange(a, b, lo, hi) ==
    IF lo = hi THEN BigShiftLimbs(BigScale(a, b[lo]), lo - 1)
    ELSE BigAdd(MulRange(a, b, lo, (lo + hi) \div 2),
                MulRange(a, b, (lo + hi) \div 2 + 1, hi))

\* a * b
BigMul(a, b) == IF a = <<>> \/ b = <<>> THEN <<>> ELSE MulRange(a, b, 1, Len(b))

\* The number of bits of n >= 0.
IntBits(n) == Cardinality({b \in 0 .. 30 : 2 ^ b <= n})

\* The number of bits of a.
BigBits(a) == IF a = <<>> THEN 0 ELSE 14 * (Len(a) - 1) + IntBits(a[Len(a)])

\* The greatest digit d <= guess with b * d <= rem.
RECURSIVE FitDigit(_, _, _)
FitDigit(rem, b, guess) ==
    IF guess >= Limb THEN FitDigit(rem, b, Limb - 1)
    ELSE IF BigCmp(BigScale(b, guess), rem) <= 0 THEN guess
    ELSE FitDigit(rem, b, guess - 1)

\* The quotient digit of rem / b from the guess the leading bits give: the
\* guess is never too small.
GuessDigit(rem, b, sh) ==
    FitDigit(rem, b, (BigToInt(BigShr(rem, sh)) + 1) \div BigToInt(BigShr(b, sh)))

\* rem \div b for rem < b * Limb.
QuotDigit(rem, b) ==
    IF BigCmp(rem, b) < 0 THEN 0
    ELSE GuessDigit(rem, b, IF BigBits(b) > 15 THEN BigBits(b) - 15 ELSE 0)

\* The division state after the digit d of cur / b.
Reduced(b, s, cur, d) ==
    [k   |-> s.k - 1,
     rem |-> IF d = 0 THEN cur ELSE BigSub(cur, BigScale(b, d)),
     q   |-> <<d>> \o s.q]

\* One limb of a brought down to what remains.
BroughtDown(a, b, s, cur) == Reduced(b, s, cur, QuotDigit(cur, b))

\* One step of the long division of a by b: limb s.k of a.
DivStep(a, b, s) ==
    BroughtDown(a, b, s, IF s.rem = <<>> THEN BigOf(a[s.k]) ELSE <<a[s.k]>> \o s.rem)

\* n steps of the long division from state s, halved so that the nesting
\* stays small.
RECURSIVE DivLoop(_, _, _, _)
DivLoop(a, b, s, n) ==
    IF s.k = 0 \/ n = 0 THEN s
    ELSE IF n = 1 THEN DivStep(a, b, s)
    ELSE DivLoop(a, b, DivLoop(a, b, s, n \div 2), n - (n \div 2))

\* Quotient and remainder of a finished long division.
QuotRem(s) == [q |-> BigTrim(s.q), r |-> s.rem]

\* Long division of a by b over the top = Len(a) - Len(b) + 1 low limbs of a.
DivFrom(a, b, top) ==
    QuotRem(DivLoop(a, b, [k |-> top, rem |-> BigTrim(SubSeq(a, top + 1, Len(a))),
                           q |-> <<>>], top))

\* a \div b and a % b for b > 0.
BigDivMod(a, b) ==
    IF BigCmp(a, b) < 0 THEN [q |-> <<>>, r |-> a]
    ELSE DivFrom(a, b, Len(a) - Len(b) + 1)

\* Newton's iteration for the integer root of n, from x above it.
RECURSIVE IntSqrtFrom(_, _)
IntSqrtFrom(n, x) ==
    LET y == (x + n \div x) \div 2 IN IF y >= x THEN x ELSE IntSqrtFrom(n, y)

\* The integer root of n < 2^31.
IntSqrt(n) == IF n = 0 THEN 0 ELSE IntSqrtFrom(n, 2 ^ ((IntBits(n) + 1) \div 2))

\* Newton's iteration stops when the next value y is no smaller.
Descend(s, y) ==
    IF BigCmp(y, s.x) >= 0 THEN [x |-> s.x, done |-> TRUE]
    ELSE [x |-> y, done |-> FALSE]

\* One step of Newton's iteration for the integer root of n.
NewtonStep(n, s) ==
    IF s.done THEN s
    ELSE Descend(s, BigShr(BigAdd(s.x, BigDivMod(n, s.x).q), 1))

\* k steps of the iteration, halved as DivLoop is.
RECURSIVE NewtonLoop(_, _, _)
NewtonLoop(n, s, k) ==
    IF s.done THEN s
    ELSE IF k = 1 THEN NewtonStep(n, s)
    ELSE NewtonLoop(n, NewtonLoop(n, s, k \div 2), k - (k \div 2))

\* The root of n by Newton's iteration from above, started at the root of
\* the leading bits n \div 2^sh.
SqrtFrom(n, sh) ==
    NewtonLoop(n, [x    |-> BigShl(BigOf(IntSqrt(BigToInt(BigShr(n, sh))) + 1), sh \div 2),
                   done |-> FALSE], 8).x

\* The integer root of n.
BigSqrt(n) ==
    IF n = <<>> THEN <<>>
    ELSE SqrtFrom(n, IF BigBits(n) > 30 THEN 2 * ((BigBits(n) - 29) \div 2) ELSE 0)


------------------------------------------------------------------------------
(* Doubles: (-1)^neg * man * 2^exp with man of 53 bits, zero (man empty),  *)
(* or not-a-number                                                         *)

\* 0.0
Zero == [nan |-> FALSE, neg |-> FALSE, man |-> <<>>, exp |-> 0]

\* nan
NaN == [nan |-> TRUE, neg |-> FALSE, man |-> <<>>, exp |-> 0]

\* c > 0, or c = 0 and tie: whether a remainder that compares as c with
\* one half rounds up.
RoundsUp(c, tie) == c > 0 \/ (c = 0 /\ tie)

\* q = mag \div 2^k made the integer nearest to mag / 2^k (a little more
\* than that when sticky), ties to even.
HalfEven(mag, q, k, sticky) ==
    IF RoundsUp(BigCmp(BigSub(mag, BigShl(q, k)), BigShl(<<1>>, k - 1)),
                sticky \/ LimbAt(q, 1) % 2 = 1)
    THEN BigAdd(q, <<1>>) ELSE q

\* The double of the significand q, which rounding up may have made 2^53.
Packed(neg, q, e) ==
    IF BigBits(q) = 54
    THEN [nan |-> FALSE, neg |-> neg, man |-> BigShr(q, 1), exp |-> e + 1]
    ELSE [nan |-> FALSE, neg |-> neg, man |-> q, exp |-> e]

\* mag of 53 + k bits as a double.
Rounded(neg, mag, e, sticky, k) ==
    IF k <= 0
    THEN [nan |-> FALSE, neg |-> neg, man |-> BigShl(mag, -k), exp |-> e + k]
    ELSE Packed(neg, HalfEven(mag, BigShr(mag, k), k, sticky), e + k)

\* The double nearest to mag * 2^e (a little more than that when sticky),
\* ties to the even significand.
Nearest(neg, mag, e, sticky) ==
    IF mag = <<>> THEN Zero ELSE Rounded(neg, mag, e, sticky, BigBits(mag) - 53)

\* |x| against |y|: -1, 0 or 1.
MagCmp(x, y) ==
    IF x.man = <<>> THEN (IF y.man = <<>> THEN 0 ELSE -1)
    ELSE IF y.man = <<>> THEN 1
    ELSE IF x.exp # y.exp THEN (IF x.exp > y.exp THEN 1 ELSE -1)
    ELSE BigCmp(x.man, y.man)

\* x against y, neither of them nan: -1, 0 or 1.
Cmp(x, y) ==
    IF x.neg # y.neg THEN (IF x.neg THEN -1 ELSE 1)
    ELSE IF x.neg THEN -MagCmp(x, y) ELSE MagCmp(x, y)

\* x > y: false as soon as one side is nan.
Gt(x, y) == ~x.nan /\ ~y.nan /\ Cmp(x, y) > 0

\* x * y
Mul(x, y) ==
    IF x.nan \/ y.nan THEN NaN
    ELSE Nearest(x.neg # y.neg, BigMul(x.man, y.man), x.exp + y.exp, FALSE)

\* a * 2^e with sign xneg plus b * 2^e with sign yneg, where c compares a
\* with b.
AddAligned(xneg, a, yneg, b, e, c) ==
    IF xneg # yneg /\ c = 0 THEN Zero
    ELSE Nearest(IF xneg = yneg \/ c > 0 THEN xneg ELSE yneg,
                 IF xneg = yneg THEN BigAdd(a, b)
                 ELSE IF c > 0 THEN BigSub(a, b) ELSE BigSub(b, a),
                 e, FALSE)

\* The same, a and b compared first.
Aligned(xneg, a, yneg, b, e) == AddAligned(xneg, a, yneg, b, e, BigCmp(a, b))

\* The significands of x and y brought to the exponent e.
AddAt(x, y, e) ==
    Aligned(x.neg, BigShl(x.man, x.exp - e), y.neg, BigShl(y.man, y.exp - e), e)

\* x + y
Add(x, y) ==
    IF x.nan \/ y.nan THEN NaN
    ELSE IF x.man = <<>> THEN y
    ELSE IF y.man = <<>> THEN x
    ELSE AddAt(x, y, IF x.exp < y.exp THEN x.exp ELSE y.exp)

\* The double of the quotient d.q * 2^e, inexact when a remainder is left.
Quotient(neg, d, e) == Nearest(neg, d.q, e, d.r # <<>>)

\* x / y.  Of the divisions by 0.0 only 0.0 / 0.0 occurs in the program (the
\* dividends are 0.0 whenever the divisor is), and it is nan.
Div(x, y) ==
    IF x.nan \/ y.nan \/ y.man = <<>> THEN NaN
    ELSE Quotient(x.neg # y.neg, BigDivMod(BigShl(x.man, 56), y.man), x.exp - y.exp - 56)

\* The double of an integer.
Float(n) == Nearest(n < 0, BigOf(IF n < 0 THEN -n ELSE n), 0, FALSE)

\* The double n / d of two integers, as the literal n/d when d is a power of
\* ten: the nearest one.
Dec(n, d) == Div(Float(n), Float(d))

\* t / 2^k to the nearest integer, ties to even.
RoundedInt(t, k) == HalfEven(t, BigShr(t, k), k, FALSE)

\* |x| * m to the nearest integer, ties to even, for a small integer m.
NearestInt(x, m) ==
    IF x.exp >= 0 THEN BigShl(BigScale(x.man, m), x.exp)
    ELSE RoundedInt(BigScale(x.man, m), -x.exp)


\* The decimal digit d as text.
DigitChar(d) ==
    CASE d = 0 -> "0" [] d = 1 -> "1" [] d = 2 -> "2" [] d = 3 -> "3" [] d = 4 -> "4"
      [] d = 5 -> "5" [] d = 6 -> "6" [] d = 7 -> "7" [] d = 8 -> "8" [] d = 9 -> "9"

\* str(n) for n >= 0.
RECURSIVE IntStr(_)
IntStr(n) == IF n < 10 THEN DigitChar(n) ELSE IntStr(n \div 10) \o DigitChar(n % 10)

\* format(x, ".1f")
Fixed1(x) ==
    IF x.nan THEN "nan"
    ELSE LET n == BigToInt(NearestInt(x, 10))
         IN  (IF x.neg THEN "-" ELSE "") \o IntStr(n \div 10) \o "." \o DigitChar(n % 10)

\* -x
Neg(x) == IF x.nan \/ x.man = <<>> THEN x ELSE [x EXCEPT !.neg = ~x.neg]

\* x - y
Sub(x, y) == Add(x, Neg(y))

\* The double of the root of m * 2^e, e even, from the integer root of m.
Rooted(m, root, e) == Nearest(FALSE, root, e \div 2, BigMul(root, root) # m)

\* The root of m * 2^e as a double.
RootOf(m, e) == Rooted(m, BigSqrt(m), e)

\* np.sqrt(x): the double nearest to the root.  The significand is
\* shifted so that its integer root has more than 53 bits.
Sqrt(x) ==
    IF x.nan THEN NaN
    ELSE IF x.man = <<>> THEN Zero
    ELSE IF x.neg THEN NaN
    ELSE RootOf(BigShl(x.man, IF x.exp % 2 = 0 THEN 56 ELSE 57),
                x.exp - (IF x.exp % 2 = 0 THEN 56 ELSE 57))


------------------------------------------------------------------------------
(* Module-level tables of app.py *)

\* camelot_map with one entry mistyped: "d minor" given F major's code.
camelot_map_Duplicate ==
    [l \in {"c major", "a minor", "g major", "e minor", "d major", "b minor",
            "a major", "f# minor", "e major", "c# minor", "b major", "g# minor",
            "f# major", "d# minor", "c# major", "a# minor", "g# major", "f minor",
            "d# major", "c minor", "a# major", "g minor", "f major", "d minor"} |->
       CASE l = "c major"  -> "8B"  [] l = "a minor"  -> "8A"
         [] l = "g major"  -> "9B"  [] l = "e minor"  -> "9A"
         [] l = "d major"  -> "10B" [] l = "b minor"  -> "10A"
         [] l = "a major"  -> "11B" [] l = "f# minor" -> "11A"
         [] l = "e major"  -> "12B" [] l = "c# minor" -> "12A"
         [] l = "b major"  -> "1B"  [] l = "g# minor" -> "1A"
         [] l = "f# major" -> "2B"  [] l = "d# minor" -> "2A"
         [] l = "c# major" -> "3B"  [] l = "a# minor" -> "3A"
         [] l = "g# major" -> "4B"  [] l = "f minor"  -> "4A"
         [] l = "d# major" -> "5B"  [] l = "c minor"  -> "5A"
         [] l = "a# major" -> "6B"  [] l = "g minor"  -> "6A"
         [] l = "f major"  -> "7B"  [] l = "d minor"  -> "7B"]

camelot_map ==
    [l \in {"c major", "a minor", "g major", "e minor", "d major", "b minor",
            "a major", "f# minor", "e major", "c# minor", "b major", "g# minor",
            "f# major", "d# minor", "c# major", "a# minor", "g# major", "f minor",
            "d# major", "c minor", "a# major", "g minor", "f major", "d minor"} |->
       CASE l = "c major"  -> "8B"  [] l = "a minor"  -> "8A"
         [] l = "g major"  -> "9B"  [] l = "e minor"  -> "9A"
         [] l = "d major"  -> "10B" [] l = "b minor"  -> "10A"
         [] l = "a major"  -> "11B" [] l = "f# minor" -> "11A"
         [] l = "e major"  -> "12B" [] l = "c# minor" -> "12A"
         [] l = "b major"  -> "1B"  [] l = "g# minor" -> "1A"
         [] l = "f# major" -> "2B"  [] l = "d# minor" -> "2A"
         [] l = "c# major" -> "3B"  [] l = "a# minor" -> "3A"
         [] l = "g# major" -> "4B"  [] l = "f minor"  -> "4A"
         [] l = "d# major" -> "5B"  [] l = "c minor"  -> "5A"
         [] l = "a# major" -> "6B"  [] l = "g minor"  -> "6A"
         [] l = "f major"  -> "7B"  [] l = "d minor"  -> "7A"]

\* The digits of the Krumhansl-Schmuckler profiles: the literals of lines 24
\* and 25 in hundredths.
MajorDigits == <<635, 223, 348, 233, 438, 409, 252, 519, 239, 366, 229, 288>>

MinorDigits == <<633, 268, 352, 538, 260, 353, 254, 475, 398, 269, 334, 317>>

\* The vector of the doubles bins[k] / unit, unit a power of ten: what an
\* array of decimal literals holds.
Doubles(bins, unit) == Entries([k \in 1 .. 12 |-> Dec(bins[k], unit)])

major_profile == Doubles(MajorDigits, 100)

minor_profile == Doubles(MinorDigits, 100)

notes == <<"C", "C#", "D", "D#", "E", "F", "F#", "G", "G#", "A", "A#", "B">>

\* The 12 pitch classes, as the indices range(12) of the code.
Pitch == 0 .. 11

------------------------------------------------------------------------------
(* detect_key, line by line *)

\* seq[p] with the code's 0-based index.
At(seq, p) == seq[p + 1]

\* np.roll(profile, i): entry k of the result is entry (k - i) mod 12.
Roll(profile, i) == Entries([k \in 1 .. 12 |-> profile[((k - 1 - i) % 12) + 1]])

\* np.sum / np.mean's sum of a row of 12 doubles: numpy adds the first eight
\* in pairs and the last four one by one.
PairwiseSum(v) ==
    Add(Add(Add(Add(Add(Add(Add(v[1], v[2]), Add(v[3], v[4])),
                        Add(Add(v[5], v[6]), Add(v[7], v[8]))),
                    v[9]), v[10]), v[11]), v[12])

\* Every bin of mean over total.
Over(mean, total) == Entries([k \in 1 .. 12 |-> Div(mean[k], total)])

\* chroma_mean / np.sum(chroma_mean), line 49.  An all-zero vector gives
\* 0.0 / 0.0 = nan in every bin (numpy warns and goes on).
Normalize(mean) == Over(mean, PairwiseSum(mean))

\* u[1] * w[1] + ... + u[n] * w[n], added in this order.
RECURSIVE Dot(_, _, _)
Dot(u, w, n) ==
    IF n = 1 THEN Mul(u[1], w[1]) ELSE Add(Dot(u, w, n - 1), Mul(u[n], w[n]))

\* x kept within lo .. hi; nan stays nan.
Bounded(x, lo, hi) ==
    IF x.nan THEN x ELSE IF Gt(x, hi) THEN hi ELSE IF Gt(lo, x) THEN lo ELSE x

\* np.clip(x, -1, 1)
Clip(x) == Bounded(x, Float(-1), Float(1))

\* x with m taken off every entry.
Less(x, m) == Entries([k \in 1 .. 12 |-> Sub(x[k], m)])

\* A row of 12 minus its np.mean.
Centered(x) == Less(x, Div(PairwiseSum(x), Float(12)))

\* An entry of np.cov's matrix: the product of two centered rows (here:
\* products added in index order; numpy leaves the order to its
\* linear-algebra library) times 1 / (12 - 1).
Cov(u, w) == Mul(Dot(u, w, 12), Div(Float(1), Float(11)))

\* A centered row with the root of its variance.
Spread(dev) == [dev |-> dev, std |-> Sqrt(Cov(dev, dev))]

\* What np.corrcoef computes of one row x before it looks at the other: the
\* row minus its mean and the root of its variance, np.sqrt(diag(c)).
Row(x) == Spread(Centered(x))

\* np.corrcoef(x, t)[0, 1], lines 60-61, for the rows rx = Row(x) and
\* rt = Row(t), step by step as numpy computes it: the covariance of the two
\* rows divided by the root of each variance in turn, x's first, and clipped
\* to [-1, 1].  A chroma whose bins all equal their mean has variance 0.0
\* and the coefficient is 0.0 / 0.0 = nan; so has a chroma of nan bins.
Corrcoef(rx, rt) == Clip(Div(Div(Cov(rx.dev, rt.dev), rx.std), rt.std))

\* Row(np.roll(major_profile, i)) and Row(np.roll(minor_profile, i)) for
\* i = 0 .. 11: they are the same in every call.
MajorRows == Entries([k \in 1 .. 12 |-> Row(Roll(major_profile, k - 1))])

MinorRows == Entries([k \in 1 .. 12 |-> Row(Roll(minor_profile, k - 1))])

\* The 0.02 of line 64.
Bias == Dec(2, 100)

\* major_score += 0.02, line 64.
AddBias(s) == Add(s, Bias)

\* best_score, best_key, best_mode as lines 52-54 set them.
InitBest == [score |-> Float(-999), key |-> "None", mode |-> "None"]

\* The loop body with >= for >: an equal score replaces the current best.
LoopBody_NotStrict(best, i, major_raw, minor_raw) ==
    LET Ge(x, y) == ~x.nan /\ ~y.nan /\ Cmp(x, y) >= 0
        Major(b, s) == IF Ge(s, b.score)
                       THEN [score |-> s, key |-> At(notes, i), mode |-> "major"]
                       ELSE b
        Minor(b, s) == IF Ge(s, b.score)
                       THEN [score |-> s, key |-> At(notes, i), mode |-> "minor"]
                       ELSE b
    IN  Minor(Major(best, AddBias(major_raw)), minor_raw)

\* Lines 71-74: the minor candidate against the best so far.
TakeMinor(b1, i, minor_score) ==
    IF Gt(minor_score, b1.score)
    THEN [score |-> minor_score, key |-> At(notes, i), mode |-> "minor"]
    ELSE b1

\* Lines 66-69: the major candidate against the best so far.
TakeMajor(best, i, major_score) ==
    IF Gt(major_score, best.score)
    THEN [score |-> major_score, key |-> At(notes, i), mode |-> "major"]
    ELSE best

\* One pass of the loop body, lines 63-74, for tonic i with the two raw
\* coefficients of lines 60-61.
LoopBody(best, i, major_raw, minor_raw) ==
    TakeMinor(TakeMajor(best, i, AddBias(major_raw)), i, minor_raw)

\* str.lower() on the words line 76 formats: a note name, a mode, or None.
Lower(w) ==
    CASE w = "C"  -> "c"  [] w = "C#" -> "c#" [] w = "D"  -> "d"
      [] w = "D#" -> "d#" [] w = "E"  -> "e"  [] w = "F"  -> "f"
      [] w = "F#" -> "f#" [] w = "G"  -> "g"  [] w = "G#" -> "g#"
      [] w = "A"  -> "a"  [] w = "A#" -> "a#" [] w = "B"  -> "b"
      [] w = "None" -> "none"
      [] OTHER -> w

\* f"{best_key} {best_mode}".lower(), line 76.
FormatKey(best) == Lower(best.key) \o " " \o Lower(best.mode)

\* FIX 1 with the factor on the wrong side: C * 1.4 > C#.
Fix1_FactorOnC(final_key, chroma_mean) ==
    IF /\ final_key = "d major"
       /\ Gt(Mul(At(chroma_mean, 0), Dec(14, 10)), At(chroma_mean, 1))
    THEN "g major" ELSE final_key

\* FIX 1 without the factor: C > C#.
Fix1_NoFactor(final_key, chroma_mean) ==
    IF /\ final_key = "d major"
       /\ Gt(At(chroma_mean, 0), At(chroma_mean, 1))
    THEN "g major" ELSE final_key

\* FIX 1, lines 81-87: C > Cs * 1.4, the product rounded to a double.
Fix1(final_key, chroma_mean) ==
    IF /\ final_key = "d major"
       /\ Gt(At(chroma_mean, 0), Mul(At(chroma_mean, 1), Dec(14, 10)))
    THEN "g major" ELSE final_key

\* FIX 2 with the sharp of its label lost: it fires on "g major".
Fix2_MissingSharp(final_key, chroma_mean) ==
    IF /\ final_key = "g major"
       /\ Gt(At(chroma_mean, 0), Dec(7, 100))
       /\ Gt(At(chroma_mean, 3), Dec(5, 100))
    THEN "c minor" ELSE final_key

\* FIX 2, lines 92-99.
Fix2(final_key, chroma_mean) ==
    IF /\ final_key = "g# major"
       /\ Gt(At(chroma_mean, 0), Dec(7, 100))
       /\ Gt(At(chroma_mean, 3), Dec(5, 100))
    THEN "c minor" ELSE final_key

\* FIX 3, lines 104-110.
Fix3(final_key, chroma_mean) ==
    IF /\ final_key = "d# major"
       /\ Gt(At(chroma_mean, 0), Dec(8, 100))
       /\ Gt(At(chroma_mean, 3), Dec(6, 100))
    THEN "c minor" ELSE final_key

\* camelot_map.get(final_key, "N/A"), line 113.
CamelotGet(final_key) ==
    IF final_key \in DOMAIN camelot_map THEN camelot_map[final_key] ELSE "N/A"

\* The lowercase words a key label is made of.
Words == {Lower(notes[k]) : k \in 1 .. 12} \cup {"major", "minor", "none"}

\* A word with its first letter in upper case.
Capitalize(w) ==
    CASE w = "c"  -> "C"  [] w = "c#" -> "C#" [] w = "d"  -> "D"
      [] w = "d#" -> "D#" [] w = "e"  -> "E"  [] w = "f"  -> "F"
      [] w = "f#" -> "F#" [] w = "g"  -> "G"  [] w = "g#" -> "G#"
      [] w = "a"  -> "A"  [] w = "a#" -> "A#" [] w = "b"  -> "B"
      [] w = "major" -> "Major" [] w = "minor" -> "Minor"
      [] w = "none" -> "None"
      [] OTHER -> w

\* final_key.title(), line 116: the label's two words, each capitalized.
Title(final_key) ==
    LET ws == CHOOSE p \in Words \X Words : p[1] \o " " \o p[2] = final_key
    IN  Capitalize(ws[1]) \o " " \o Capitalize(ws[2])

\* The tuple of line 118.
ReturnValue(final_key, best, chroma_mean) ==
    [key    |-> Title(final_key),
     camelot |-> CamelotGet(final_key),
     score  |-> best.score,
     chroma |-> chroma_mean]

\* The loop's locals after the pass for tonic l.i, given the coefficients of
\* lines 60-61.  seen keeps the scores of each pass, the major one before
\* and after line 64, for the properties.
Pass(l, major_raw, minor_raw) ==
    [i    |-> l.i + 1,
     best |-> LoopBody(l.best, l.i, major_raw, minor_raw),
     seen |-> Append(l.seen, [raw   |-> major_raw,
                              major |-> AddBias(major_raw),
                              minor |-> minor_raw])]

\* Lines 56-74: the passes from tonic l.i on, for the chroma whose row is
\* xrow.
RECURSIVE Loop(_, _)
Loop(l, xrow) ==
    IF l.i = 12 THEN l
    ELSE Loop(Pass(l, Corrcoef(xrow, At(MajorRows, l.i)),
                      Corrcoef(xrow, At(MinorRows, l.i))),
              xrow)

\* The label of line 76 followed by the label after FIX 1, after FIX 2 and
\* after FIX 3, lines 81-110.
Labels(key, chroma_mean) ==
    <<key,
      Fix1(key, chroma_mean),
      Fix2(Fix1(key, chroma_mean), chroma_mean),
      Fix3(Fix2(Fix1(key, chroma_mean), chroma_mean), chroma_mean)>>

\* detect_key's locals when line 118 returns.  line76 keeps what the loop
\* handed over and fixed the label after each correction, for the
\* properties; rewrites counts the corrections that changed the label.
Locals(chroma_mean, l, labels) ==
    [chroma_mean |-> chroma_mean,
     i           |-> l.i,
     best        |-> l.best,
     seen        |-> l.seen,
     line76      |-> [status |-> 1, key |-> labels[1], score |-> l.best.score,
                      chroma |-> chroma_mean],
     fixed       |-> Tail(labels),
     final_key   |-> labels[4],
     rewrites    |-> Cardinality({k \in 1 .. 3 : labels[k] # labels[k + 1]}),
     ret         |-> ReturnValue(labels[4], l.best, chroma_mean)]

\* Lines 76-118 after the loop left l.
Decide(chroma_mean, l) ==
    Locals(chroma_mean, l, Labels(FormatKey(l.best), chroma_mean))

\* Lines 52-118 for the normalized chroma.
Estimate(chroma_mean) ==
    Decide(chroma_mean,
           Loop([i |-> 0, best |-> InitBest, seen |-> <<>>], Row(chroma_mean)))

\* detect_key from line 49 on, for the time-averaged chroma of line 46.
detect_key(mean) == Estimate(Normalize(mean))

------------------------------------------------------------------------------
(* upload *)

\* A descending sort made by reversing an ascending stable sort: equal bins
\* come out in descending index order.
Rank_TiesReversed(chroma, p) ==
    Cardinality({q \in Pitch : Gt(At(chroma, q), At(chroma, p))})
    + Cardinality({q \in p + 1 .. 11 : ~Gt(At(chroma, p), At(chroma, q))
                                       /\ ~Gt(At(chroma, q), At(chroma, p))})

\* The place a bin takes in sorted(..., key=value, reverse=True): the bins
\* that compare greater come first, and of the bins that compare neither
\* greater nor smaller (equal, or nan) the earlier ones (the sort is stable).
Rank(chroma, p) ==
    Cardinality({q \in Pitch : Gt(At(chroma, q), At(chroma, p))})
    + Cardinality({q \in 0 .. p - 1 : ~Gt(At(chroma, p), At(chroma, q))
                                      /\ ~Gt(At(chroma, q), At(chroma, p))})

\* top_notes, lines 141-145: the first five (note, value) pairs of the sort.
TopNotes(chroma) ==
    Entries([k \in 1 .. 5 |->
               LET p == CHOOSE q \in Pitch : Rank(chroma, q) = k - 1
               IN  [note |-> At(notes, p), value |-> At(chroma, p)]])

\* f"{n} ({v*100:.1f}%)", line 147.
NoteText(pair) == pair.note \o " (" \o Fixed1(Mul(pair.value, Float(100))) \o "%)"

\* top_notes_text, line 147: the five texts joined by ", ".
TopNotesText(top_notes) ==
    NoteText(top_notes[1]) \o ", " \o NoteText(top_notes[2]) \o ", "
    \o NoteText(top_notes[3]) \o ", " \o NoteText(top_notes[4]) \o ", "
    \o NoteText(top_notes[5])

\* round(score * 100, 2), line 152: Python rounds the exact value of the
\* double score * 100 to hundredths, ties to even, and returns the double
\* nearest to that decimal.
Confidence(score) ==
    LET pct == Mul(score, Float(100))
    IN  IF pct.nan THEN NaN
        ELSE Div(Nearest(pct.neg, NearestInt(pct, 100), 0, FALSE), Float(100))

\* The JSON body of lines 149-154, sent with status 200.
Response(ret, top_notes_text) ==
    [status     |-> 200,
     key        |-> ret.key,
     camelot    |-> ret.camelot,
     confidence |-> Confidence(ret.score),
     top_notes  |-> top_notes_text]

\* The replies of lines 129 and 133.
ErrorResponse(msg) == [status |-> 400, error |-> msg]

\* Flask's reply to a request whose handler raised.
ServerError == [status |-> 500]

------------------------------------------------------------------------------
(* State *)

VARIABLES
    file,    \* the blocks stored at "uploaded_audio.wav"
    call     \* per request: where upload / detect_key stands, and its locals

vars == <<file, call>>

\* Bounds of the model.
NumRequests == 2

NumBlocks == 2

MaxLevel == 2

MaxFlat == 3

Requests == 1 .. NumRequests

\* A recording is described by what lines 32-46 (librosa: load, trim, cut to
\* 60 s, harmonic part, chroma_cqt, mean over time) make of it: the 12
\* time-averaged chroma bins, the doubles bins[k] / unit.
Recording(bins, unit) == [bins |-> bins, unit |-> unit]

\* Content that librosa cannot analyse: no decoder reads it.
NotAudio == [bins |-> <<>>, unit |-> 1]

\* np.mean(chroma, axis=1) of a recording, line 46.
ChromaOf(audio) == Doubles(audio.bins, audio.unit)

\* The recordings whose chroma is a profile.
MajorRecording(i) == Recording(Roll(MajorDigits, i), 1)

MinorRecording(i) == Recording(Roll(MinorDigits, i), 1)

Profiles == {MajorRecording(i) : i \in Pitch} \cup {MinorRecording(i) : i \in Pitch}

\* Bin energies that take the place of a profile's C, C# and D# bins.
Levels == {150 * k : k \in 0 .. MaxLevel}

\* The D major profile with its C and C# bins, and the G# and D# major
\* profiles with their C and D# bins, set to a level.
Perturbed ==
    {Recording([Roll(MajorDigits, 2) EXCEPT ![1] = c, ![2] = d], 1) :
       c \in Levels, d \in Levels}
    \cup {Recording([Roll(MajorDigits, i) EXCEPT ![1] = c, ![4] = d], 1) :
            i \in {3, 8}, c \in Levels, d \in Levels}

\* All bins equal, 0.0, 0.1, 0.2, ...: silence and flat spectra.
Flat == {Recording([k \in 1 .. 12 |-> c], 10) : c \in 0 .. MaxFlat}

\* The chroma of the ranking example.
RankingMean == Recording(<<30, 5, 20, 5, 15, 5, 5, 10, 2, 1, 1, 1>>, 1)

\* Four D-major-like chromas of sum 1000: C = 0.10, C = 0.02, C = 0.07 and
\* C = 0.06, each with C# = 0.05.
NaturalCMean == Recording(<<100, 50, 160, 45, 80, 45, 110, 90, 55, 130, 50, 85>>, 1)

SharpCMean == Recording(<<20, 50, 160, 53, 83, 56, 110, 98, 60, 130, 80, 100>>, 1)

EdgeCMean == Recording(<<70, 50, 190, 45, 80, 45, 110, 90, 55, 130, 50, 85>>, 1)

MildCMean == Recording(<<60, 50, 170, 45, 80, 45, 110, 90, 55, 130, 60, 105>>, 1)

\* A chroma whose C major and F major scores differ in the seventh decimal.
NearTieMean ==
    Recording(<<3462, 1377, 2142, 1386, 2178, 3132, 1420, 2601, 1416, 2412, 1914, 1620>>, 1)

\* Chromas between two profiles, in units of 2^-24 (the bins sum to 1): the
\* raw coefficient of the major candidate named first plus 0.02, the sum of
\* line 64, is the raw coefficient of the candidate named second, and the
\* other 22 candidates score far less.
TieCMajorAMinor ==
    Recording(<<2259585, 943377, 1361060, 949097, 1777591, 1560311,
                1012007, 1617185, 1092217, 1987221, 970396, 1247169>>, 2 ^ 24)

TieCMajorCMinor ==
    Recording(<<2458564, 959132, 1358029, 1542557, 1325818, 1468918,
                981526, 1920665, 1259983, 1216268, 1108087, 1177669>>, 2 ^ 24)

TieDMajorBMinor ==
    Recording(<<968131, 1252719, 2256823, 944328, 1360719, 946071,
                1775505, 1560526, 1012993, 1619822, 1092029, 1987550>>, 2 ^ 24)

TieEMajorEMinor ==
    Recording(<<1259990, 1216268, 1108089, 1177696, 2458530, 959123,
                1358034, 1542558, 1325827, 1468922, 981526, 1920653>>, 2 ^ 24)

TieFMajorDMinor ==
    Recording(<<1622309, 1092522, 1987576, 971837, 1253510, 2253610,
                942094, 1358071, 947836, 1777574, 1561895, 1008382>>, 2 ^ 24)

TieGMajorEMinor ==
    Recording(<<1562053, 1012964, 1618705, 1092197, 1986106, 970560,
                1252388, 2255353, 943052, 1359589, 947808, 1776441>>, 2 ^ 24)

TieAMajorFsMinor ==
    Recording(<<947785, 1776460, 1562052, 1012960, 1618701, 1092194,
                1986104, 970558, 1252388, 2255357, 943047, 1359610>>, 2 ^ 24)

TieCMajorGMajor ==
    Recording(<<2076185, 956347, 1756794, 949268, 1608717, 1263173,
                1086152, 2325089, 926014, 1432767, 927575, 1469135>>, 2 ^ 24)

TieGMajorCMajor ==
    Recording(<<2115437, 950939, 1725375, 946933, 1620192, 1296430,
                1080807, 2306297, 928790, 1434801, 927036, 1444179>>, 2 ^ 24)

\* The tied chromas with the tonic of the major candidate, and the tonic and
\* mode of the candidate 0.02 above it.
Ties ==
    {[audio |-> TieCMajorAMinor, major |-> 0, tonic |-> 9, mode |-> "minor"],
     [audio |-> TieCMajorCMinor, major |-> 0, tonic |-> 0, mode |-> "minor"],
     [audio |-> TieDMajorBMinor, major |-> 2, tonic |-> 11, mode |-> "minor"],
     [audio |-> TieEMajorEMinor, major |-> 4, tonic |-> 4, mode |-> "minor"],
     [audio |-> TieFMajorDMinor, major |-> 5, tonic |-> 2, mode |-> "minor"],
     [audio |-> TieGMajorEMinor, major |-> 7, tonic |-> 4, mode |-> "minor"],
     [audio |-> TieAMajorFsMinor, major |-> 9, tonic |-> 6, mode |-> "minor"],
     [audio |-> TieCMajorGMajor, major |-> 0, tonic |-> 7, mode |-> "major"],
     [audio |-> TieGMajorCMajor, major |-> 7, tonic |-> 0, mode |-> "major"]}

Recordings ==
    Profiles \cup Perturbed \cup Flat
    \cup {RankingMean, NaturalCMean, SharpCMean, EdgeCMean, MildCMean, NearTieMean}
    \cup {t.audio : t \in Ties}

\* A POST /upload: whether the form has a "file" part, its filename, its
\* content.
UploadOf(audio) == [has_file |-> TRUE, filename |-> "song.wav", audio |-> audio]

NoFilePart == [has_file |-> FALSE, filename |-> "", audio |-> NotAudio]

NoFilename == [has_file |-> TRUE, filename |-> "", audio |-> NotAudio]

\* The file is written and read in blocks: block j of an upload.
Block(audio, j) == [audio |-> audio, part |-> j]

BlocksOf(audio) == Entries([j \in 1 .. NumBlocks |-> Block(audio, j)])

\* A stretch of the file that nobody wrote (it reads as zero bytes).
Hole == Block(NotAudio, 0)

Unset == [status |-> 0]

\* The locals of one request before it runs.
NewCall(request, pc) ==
    [pc          |-> pc,
     request     |-> request,
     written     |-> 0,
     got         |-> <<>>,
     mean        |-> <<>>,
     chroma_mean |-> <<>>,
     i           |-> 0,
     best        |-> InitBest,
     seen        |-> <<>>,
     final_key   |-> "",
     line76      |-> Unset,
     fixed       |-> <<>>,
     rewrites    |-> 0,
     ret         |-> Unset,
     top_notes   |-> <<>>,
     resp        |-> Unset]

\* One request in flight, with any recording of the family or a file that is
\* not audio.
Init ==
    /\ file = <<>>
    /\ \E q \in {UploadOf(a) : a \in Recordings \cup {NotAudio}}
                \cup {NoFilePart, NoFilename} :
          call = [r \in Requests |->
                    IF r = 1 THEN NewCall(q, "recv") ELSE NewCall(NoFilePart, "idle")]

\* Every request in flight: request r uploads a major profile of its own,
\* C major, G major, D major, ..., or sends a form without a file.
InitConcurrent ==
    /\ file = <<>>
    /\ \E u \in [Requests -> {"upload", "no part", "no name"}] :
          call = [r \in Requests |->
                    NewCall(CASE u[r] = "upload" ->
                                   UploadOf(MajorRecording((7 * (r - 1)) % 12))
                              [] u[r] = "no part" -> NoFilePart
                              [] u[r] = "no name" -> NoFilename,
                            "recv")]

------------------------------------------------------------------------------
(* upload and detect_key, step by step *)

\* Lines 128-133: the two early returns.
Reject(r) ==
    /\ call[r].pc = "recv"
    /\ \/ /\ ~call[r].request.has_file
          /\ call' = [call EXCEPT ![r].resp = ErrorResponse("No file uploaded"),
                                   ![r].pc = "done"]
       \/ /\ call[r].request.has_file
          /\ call[r].request.filename = ""
          /\ call' = [call EXCEPT ![r].resp = ErrorResponse("No selected file"),
                                   ![r].pc = "done"]
    /\ UNCHANGED file

\* Lines 135-136, file.save opening the path: open(dst, "wb") empties the
\* file.
SaveOpen(r) ==
    /\ call[r].pc = "recv"
    /\ call[r].request.has_file
    /\ call[r].request.filename # ""
    /\ file' = <<>>
    /\ call' = [call EXCEPT ![r].written = 0, ![r].pc = "saving"]

\* The file f with block b written at place j; the places between the end of
\* the file and j become a hole.
WriteAt(f, j, b) ==
    IF j <= Len(f) THEN [f EXCEPT ![j] = b]
    ELSE f \o [k \in 1 .. j - 1 - Len(f) |-> Hole] \o <<b>>

\* Line 136, file.save copying the upload: one block is written at the
\* writer's own position; after the last block the file is closed.
SaveWrite(r) ==
    /\ call[r].pc = "saving"
    /\ LET j == call[r].written + 1
       IN  /\ file' = WriteAt(file, j, Block(call[r].request.audio, j))
           /\ call' = [call EXCEPT ![r].written = j,
                                    ![r].pc = IF j = NumBlocks THEN "saved"
                                              ELSE "saving"]

\* Line 32, librosa.load reading the path: the next block at the reader's own
\* position, or the end of the file.
LoadRead(r) ==
    /\ call[r].pc = "saved"
    /\ call' = IF Len(call[r].got) < Len(file)
               THEN [call EXCEPT ![r].got = Append(@, file[Len(@) + 1])]
               ELSE [call EXCEPT ![r].pc = "read"]
    /\ UNCHANGED file

\* The blocks read are one upload from its first block to its last.
Whole(got) == got # <<>> /\ got = BlocksOf(got[1].audio)

\* The blocks of the blocks read that hold audio.
AudioBlocks(got) == SelectSeq(got, LAMBDA b : b.audio.bins # <<>>)

\* The chroma of blocks of audio that are not one whole recording: the mean
\* of the chromas of the blocks.
MixedChroma(blocks) ==
    Entries([k \in 1 .. 12 |->
               LET Sum[j \in 0 .. Len(blocks)] ==
                       IF j = 0 THEN Zero
                       ELSE Add(Sum[j - 1], ChromaOf(blocks[j].audio)[k])
               IN  Div(Sum[Len(blocks)], Float(Len(blocks)))])

\* What lines 32-46 can make of the blocks read.  One whole recording gives
\* its chroma.  Nothing, or a file that does not start as audio, cannot be
\* decoded.  A file that starts as audio and is cut short or continues with
\* other content is damaged: the decoder either analyses the audio it finds
\* or gives up.
Analysable(got) == got # <<>> /\ got[1].audio.bins # <<>>

MayRaise(got) == ~(Whole(got) /\ Analysable(got))

\* Lines 32-46 succeeding.
LoadEnd(r) ==
    /\ call[r].pc = "read"
    /\ Analysable(call[r].got)
    /\ call' = [call EXCEPT ![r].mean = IF Whole(call[r].got)
                                        THEN ChromaOf(call[r].got[1].audio)
                                        ELSE MixedChroma(AudioBlocks(call[r].got)),
                             ![r].pc = "loaded"]
    /\ UNCHANGED file

\* Lines 32-46 raising: nothing catches the exception and Flask answers 500.
LoadFail(r) ==
    /\ call[r].pc = "read"
    /\ MayRaise(call[r].got)
    /\ call' = [call EXCEPT ![r].resp = ServerError, ![r].pc = "done"]
    /\ UNCHANGED file

\* The call c with detect_key's locals d, back in upload.
Returned(c, d) ==
    [c EXCEPT !.chroma_mean = d.chroma_mean,
              !.i = d.i,
              !.best = d.best,
              !.seen = d.seen,
              !.line76 = d.line76,
              !.fixed = d.fixed,
              !.final_key = d.final_key,
              !.rewrites = d.rewrites,
              !.ret = d.ret,
              !.pc = "returned"]

\* Lines 49-118: the rest of detect_key, which works on its own locals.
Analyse(r) ==
    /\ call[r].pc = "loaded"
    /\ call' = [call EXCEPT ![r] = Returned(call[r], detect_key(call[r].mean))]
    /\ UNCHANGED file

\* Lines 141-154.
Respond(r) ==
    /\ call[r].pc = "returned"
    /\ LET top_notes == TopNotes(call[r].ret.chroma)
       IN  call' = [call EXCEPT ![r].top_notes = top_notes,
                                ![r].resp = Response(call[r].ret,
                                                     TopNotesText(top_notes)),
                                ![r].pc = "done"]
    /\ UNCHANGED file

Next ==
    \E r \in Requests :
       \/ Reject(r)
       \/ SaveOpen(r)
       \/ SaveWrite(r)
       \/ LoadRead(r)
       \/ LoadEnd(r)
       \/ LoadFail(r)
       \/ Analyse(r)
       \/ Respond(r)

\* One upload at a time.
Spec == Init /\ [][Next]_vars

\* Uploads served concurrently (line 161 runs Flask's server, which gives
\* each request a thread of its own; nothing in upload serializes them).
SpecConcurrent == InitConcurrent /\ [][Next]_vars

------------------------------------------------------------------------------
(* Properties *)

Modes == {"major", "minor"}

\* The 24 labels "<note> <mode>" in lower case.
CanonicalLabels == {Lower(notes[k]) \o " " \o m : k \in 1 .. 12, m \in Modes}

\* The request was answered with a key.
Answered(r) == call[r].pc = "done" /\ call[r].resp.status = 200

\* The positions at which a request has read the file to its end.
HasRead(r) ==
    \/ call[r].pc \in {"read", "loaded", "returned"}
    \/ call[r].pc = "done" /\ call[r].resp.status \in {200, 500}

\* The positions at which detect_key has returned to the request.
HasKey(r) == call[r].pc = "returned" \/ Answered(r)

\* What the request read from the file is the recording `audio`, whole.
Heard(r, audio) == call[r].got = BlocksOf(audio)

\* C1: every request analyses the audio that it saved itself, whatever the
\* interleaving of the requests: what it read from the shared file is its own
\* upload, from the first block to the last.
C1_ReadsOwnUpload ==
    \A r \in Requests : HasRead(r) => Heard(r, call[r].request.audio)

\* C2 as stated: a chroma that is the major profile rotated by i is reported
\* as notes[i] Major with that key's Camelot code, for every i in 0..11.
C2_EveryRotationMajor ==
    \A r \in Requests : \A i \in Pitch :
       (Answered(r) /\ Heard(r, MajorRecording(i)))
       => /\ call[r].resp.key = At(notes, i) \o " Major"
          /\ call[r].resp.camelot = camelot_map[Lower(At(notes, i)) \o " major"]

\* C2, amended: for a chroma that is the major profile rotated by i the
\* selection loop picks notes[i] major for every i; the final result is
\* notes[i] Major with its Camelot code for every i but 3 (D#) and 8 (G#),
\* where FIX 3 and FIX 2 rewrite the label and the result is C Minor, 5A.
\* For i = 0 the result is C Major, 8B.
C2_RotationMajorButCorrected ==
    \A r \in Requests : \A i \in Pitch :
       (Answered(r) /\ Heard(r, MajorRecording(i)))
       => /\ call[r].line76.key = Lower(At(notes, i)) \o " major"
          /\ i \notin {3, 8}
               => /\ call[r].resp.key = At(notes, i) \o " Major"
                  /\ call[r].resp.camelot = camelot_map[Lower(At(notes, i)) \o " major"]
          /\ i \in {3, 8}
               => /\ call[r].resp.key = "C Minor"
                  /\ call[r].resp.camelot = "5A"
          /\ i = 0
               => /\ call[r].resp.key = "C Major"
                  /\ call[r].resp.camelot = "8B"

C2_Witness ==
    \E r \in Requests :
       /\ Answered(r)
       /\ Heard(r, MajorRecording(0))
       /\ call[r].resp.key = "C Major"
       /\ call[r].resp.camelot = "8B"

\* The raw coefficient of the candidate (i, m) as request r computed it, and
\* its score as lines 66 and 71 compare it.
RawOf(r, i, m) ==
    IF m = "major" THEN At(call[r].seen, i).raw ELSE At(call[r].seen, i).minor

ScoreOf(r, i, m) ==
    IF m = "major" THEN At(call[r].seen, i).major ELSE At(call[r].seen, i).minor

\* Two doubles are the same number.
Same(x, y) == ~x.nan /\ ~y.nan /\ Cmp(x, y) = 0

\* In request r the major candidate at tonic a and the candidate (b, m) are
\* the two best of the 24, every other candidate scoring below both, and
\* the major one is lower by exactly 0.02: its raw coefficient plus 0.02,
\* as line 64 adds it, is the other's raw coefficient.
Leaders(r, a, b, m) ==
    /\ <<b, m>> # <<a, "major">>
    /\ Same(AddBias(RawOf(r, a, "major")), RawOf(r, b, m))
    /\ \A i \in Pitch : \A n \in Modes :
          (<<i, n>> # <<a, "major">> /\ <<i, n>> # <<b, m>>)
          => Gt(RawOf(r, a, "major"), ScoreOf(r, i, n))

\* The loop of request r chose the candidate (i, m).
Chose(r, i, m) ==
    /\ call[r].best.key = At(notes, i)
    /\ call[r].best.mode = m
    /\ call[r].line76.key = Lower(At(notes, i)) \o " " \o m

\* C3 as stated: with a major candidate exactly 0.02 below the other leader,
\* the loop chooses the major candidate, wherever the two tonics lie.
C3_MajorAlwaysChosen ==
    \A r \in Requests :
       HasKey(r)
       => \A a \in Pitch : \A b \in Pitch : \A m \in Modes :
             Leaders(r, a, b, m) => Chose(r, a, "major")

\* C3, amended: with a major candidate exactly 0.02 below the other leader
\* (its raw coefficient plus 0.02, the sum of line 64, equals the other's raw
\* coefficient), the loop chooses the major candidate when the other is a
\* minor candidate at the same or a higher tonic: the major is met first and
\* the equal score does not replace it.  When the other is a minor candidate
\* at a lower tonic (met first) or a major candidate (it gets the same
\* bias), the loop chooses the other.  Each tied chroma is such a case.
C3_TieGoesToFirstMet ==
    \A r \in Requests :
       HasKey(r)
       => /\ \A a \in Pitch : \A b \in Pitch : \A m \in Modes :
                Leaders(r, a, b, m)
                => IF m = "minor" /\ a <= b THEN Chose(r, a, "major")
                   ELSE Chose(r, b, m)
          /\ \A t \in Ties :
                Heard(r, t.audio) => Leaders(r, t.major, t.tonic, t.mode)

C3_Witness ==
    \E r \in Requests :
       /\ HasKey(r)
       /\ Heard(r, TieCMajorAMinor)
       /\ Leaders(r, 0, 9, "minor")
       /\ Chose(r, 0, "major")

\* C > 1.4 * C# on the bins of a chroma, as doubles.
NaturalC(chroma) == Gt(At(chroma, 0), Mul(Dec(14, 10), At(chroma, 1)))

\* C4: when the loop's label is "d major", the final label is "g major" if
\* C > 1.4 * C# (the product a double, as the code computes it) and
\* "d major" otherwise; the chroma with C = 0.10, C# = 0.05 is turned to
\* G major, the one with C = 0.02, C# = 0.05 stays D major.  So does the one
\* with C = 0.06; the one with C = 0.07 is turned to G major, the double
\* product 0.05 * 1.4 being 0.06999999999999999.
C4_DMajorCorrection ==
    \A r \in Requests :
       /\ (HasKey(r) /\ call[r].line76.key = "d major")
          => call[r].fixed[1] =
                IF NaturalC(call[r].chroma_mean) THEN "g major" ELSE "d major"
       /\ (Answered(r) /\ call[r].line76.key = "d major")
          => call[r].resp.key =
                IF NaturalC(call[r].line76.chroma) THEN "G Major" ELSE "D Major"
       /\ (Answered(r) /\ Heard(r, NaturalCMean))
          => /\ call[r].line76.chroma[1] = Dec(10, 100)
             /\ call[r].line76.chroma[2] = Dec(5, 100)
             /\ call[r].line76.key = "d major"
             /\ call[r].resp.key = "G Major"
       /\ (Answered(r) /\ Heard(r, SharpCMean))
          => /\ call[r].line76.chroma[1] = Dec(2, 100)
             /\ call[r].line76.chroma[2] = Dec(5, 100)
             /\ call[r].line76.key = "d major"
             /\ call[r].resp.key = "D Major"
       /\ (Answered(r) /\ Heard(r, MildCMean))
          => /\ call[r].line76.chroma[1] = Dec(6, 100)
             /\ call[r].line76.chroma[2] = Dec(5, 100)
             /\ call[r].line76.key = "d major"
             /\ call[r].resp.key = "D Major"
       /\ (Answered(r) /\ Heard(r, EdgeCMean))
          => /\ call[r].line76.chroma[1] = Dec(7, 100)
             /\ call[r].line76.chroma[2] = Dec(5, 100)
             /\ call[r].line76.key = "d major"
             /\ call[r].resp.key = "G Major"

C4_Witness ==
    \E r \in Requests :
       /\ call[r].pc = "returned"
       /\ Heard(r, NaturalCMean)
       /\ call[r].line76.key = "d major"
       /\ call[r].fixed[1] = "g major"
       /\ call[r].final_key = "g major"

\* The Camelot wheel as documented: the tonics of 1B .. 12B and of 1A .. 12A.
MajorWheel == <<"b", "f#", "c#", "g#", "d#", "a#", "f", "c", "g", "d", "a", "e">>

MinorWheel == <<"g#", "d#", "a#", "f", "c", "g", "d", "a", "e", "b", "f#", "c#">>

Numerals == <<"1", "2", "3", "4", "5", "6", "7", "8", "9", "10", "11", "12">>

\* Labels that are not in the table.
ForeignLabels == {"none none", "", "C Major", "c major ", "db major", "h minor", "c"}

\* C5: the lookup is total: each of the 24 canonical labels gets its
\* documented code, the codes are 1A..12A and 1B..12B, none used twice, and
\* a label outside the table gets "N/A".
C5_CamelotTotal ==
    /\ DOMAIN camelot_map = CanonicalLabels
    /\ \A n \in 1 .. 12 :
          /\ CamelotGet(MajorWheel[n] \o " major") = Numerals[n] \o "B"
          /\ CamelotGet(MinorWheel[n] \o " minor") = Numerals[n] \o "A"
    /\ \A k, l \in CanonicalLabels : k # l => CamelotGet(k) # CamelotGet(l)
    /\ {CamelotGet(l) : l \in CanonicalLabels}
          = {Numerals[n] \o x : n \in 1 .. 12, x \in {"A", "B"}}
    /\ \A l \in ForeignLabels : CamelotGet(l) = "N/A"
    /\ \A r \in Requests :
          call[r].pc = "returned"
          => call[r].ret.camelot =
                IF call[r].final_key \in CanonicalLabels
                THEN camelot_map[call[r].final_key] ELSE "N/A"

C5_Witness ==
    \E r \in Requests :
       /\ call[r].pc = "returned"
       /\ call[r].final_key = "d major"
       /\ call[r].ret.camelot = "10B"

\* C6: for an all-zero time-averaged chroma the normalization gives a
\* defined result (the code has no error path, so: a vector of numbers), and
\* the correlation step does not run on not-a-number values.
C6_ZeroChromaDefined ==
    \A r \in Requests :
       (HasKey(r) /\ \A k \in 1 .. 12 : call[r].mean[k] = Zero)
       => \A k \in 1 .. 12 : ~call[r].chroma_mean[k].nan

\* The pitch class of a note name.
PitchOf(note) == CHOOSE p \in Pitch : At(notes, p) = note

\* The note names of a list of (note, value) pairs.
NamesOf(pairs) == [k \in 1 .. Len(pairs) |-> pairs[k].note]

\* C7 as stated: the ranking example's top five are C, D, E, G, F.
C7_TopFiveEndsWithF ==
    \A r \in Requests :
       (Answered(r) /\ Heard(r, RankingMean))
       => NamesOf(call[r].top_notes) = <<"C", "D", "E", "G", "F">>

\* C7, amended: the top-5 list is the first five of the 12 (note, value)
\* pairs sorted by value descending, equal values in ascending pitch-class
\* order; for the chroma [0.30,0.05,0.20,0.05,0.15,0.05,0.05,0.10,0.02,0.01,
\* 0.01,0.01] it is C, D, E, G, C#: of the four bins at 0.05 (C#, D#, F, F#)
\* the first, C#, takes the fifth place.
C7_TopFiveStable ==
    \A r \in Requests :
       Answered(r)
       => LET ch  == call[r].line76.chroma
              top == call[r].top_notes
              idx == [k \in 1 .. 5 |-> PitchOf(top[k].note)]
              Tie(x, y) == ~Gt(x, y) /\ ~Gt(y, x)
          IN  /\ \A k \in 1 .. 5 : top[k].value = At(ch, idx[k])
              /\ \A k \in 1 .. 4 :
                    /\ ~Gt(top[k + 1].value, top[k].value)
                    /\ Tie(top[k].value, top[k + 1].value) => idx[k] < idx[k + 1]
              /\ \A p \in Pitch \ {idx[k] : k \in 1 .. 5} :
                    /\ ~Gt(At(ch, p), top[5].value)
                    /\ Tie(At(ch, p), top[5].value) => p > idx[5]
              /\ Heard(r, RankingMean)
                    => /\ ch = Doubles(RankingMean.bins, 100)
                       /\ NamesOf(top) = <<"C", "D", "E", "G", "C#">>
                       /\ call[r].resp.top_notes
                             = "C (30.0%), D (20.0%), E (15.0%), G (10.0%), C# (5.0%)"

C7_Witness ==
    \E r \in Requests :
       /\ Answered(r)
       /\ Heard(r, RankingMean)
       /\ call[r].top_notes[5].note = "C#"

\* The biased score of candidate c in the loop's order (2i: major at tonic i,
\* 2i + 1: minor at tonic i) as request r computed it.
Biased(r, c) ==
    IF c % 2 = 0 THEN call[r].seen[c \div 2 + 1].major
    ELSE call[r].seen[c \div 2 + 1].minor

\* C8: the loop returns the first candidate, in the loop's order, whose
\* biased score is the maximum of the 24.
C8_FirstMaximum ==
    \A r \in Requests :
       HasKey(r)
       => \E c \in 0 .. 23 :
             /\ call[r].best.key = At(notes, c \div 2)
             /\ call[r].best.mode = (IF c % 2 = 0 THEN "major" ELSE "minor")
             /\ call[r].best.score = Biased(r, c)
             /\ \A d \in 0 .. 23 : ~Gt(Biased(r, d), Biased(r, c))
             /\ \A d \in 0 .. c - 1 : Gt(Biased(r, c), Biased(r, d))

\* C9: for every chroma of 12 non-negative bins that sum to 1 the final label
\* is one of the 24 canonical labels and the Camelot code is not "N/A".
C9_LabelCanonical ==
    \A r \in Requests :
       (call[r].pc = "returned" /\ \E k \in 1 .. 12 : call[r].mean[k] # Zero)
       => /\ call[r].final_key \in CanonicalLabels
          /\ call[r].ret.camelot # "N/A"

\* C10: the corrections change the label only, and only from "d major",
\* "g# major" or "d# major"; the score and the chroma returned are those the
\* loop left; at most one correction rewrites the label in a call.
C10_CorrectionsFrame ==
    \A r \in Requests :
       /\ HasKey(r)
          => /\ call[r].line76.key \notin {"d major", "g# major", "d# major"}
                  => call[r].final_key = call[r].line76.key
             /\ call[r].final_key # call[r].line76.key <=> call[r].rewrites = 1
             /\ call[r].rewrites <= 1
             /\ call[r].best.score = call[r].line76.score
             /\ call[r].chroma_mean = call[r].line76.chroma
       /\ call[r].pc = "returned"
          => /\ call[r].ret.score = call[r].line76.score
             /\ call[r].ret.chroma = call[r].line76.chroma
             /\ call[r].ret.key = Title(call[r].final_key)

C10_Witness ==
    \E r \in Requests :
       /\ call[r].pc = "returned"
       /\ call[r].line76.key = "g# major"
       /\ call[r].final_key = "c minor"
       /\ call[r].rewrites = 1

====
